---- MODULE Spec2Model ----
(***************************************************************************)
(* Ruins / Altar reminder bot: schedule parsing, the merged event catalog, *)
(* the 30-second scheduler tick with its asynchronous delivery, and the    *)
(* persisted "notified" ledger.  Two near-duplicate variants of the source *)
(* exist (src/unnamed/part_000 and src/index.js); the variable `variant`   *)
(* says which one a behaviour runs.                                        *)
(*                                                                         *)
(* Time is in whole seconds since 2024-01-01T00:00:00Z (luxon works in     *)
(* milliseconds; every instant the model uses is a whole second).  The     *)
(* process time zone is taken to be UTC.                                   *)
(***************************************************************************)
EXTENDS Integers, Sequences, FiniteSets, TLC

(***************************************************************************)
(* Program constants                                                       *)
(***************************************************************************)
WindowLo == 3570
WindowHi == 3630
TickPeriod == 30
PruneDays == 14
GraceMinutes == 5
MaxListed == 50

Variants == {"part_000", "index"}
Types == {"ruins", "altar"}

(***************************************************************************)
(* Calendar (luxon DateTime in zone UTC)                                   *)
(***************************************************************************)
Min(a, b) == IF a < b THEN a ELSE b

IsLeap(y) == (y % 4 = 0 /\ y % 100 # 0) \/ y % 400 = 0

DaysInMonth(y, m) ==
    IF m = 2 THEN (IF IsLeap(y) THEN 29 ELSE 28)
    ELSE IF m \in {4, 6, 9, 11} THEN 30 ELSE 31

DaysInYear(y) == IF IsLeap(y) THEN 366 ELSE 365

RECURSIVE DaysBeforeYear(_)
DaysBeforeYear(y) == IF y <= 2024 THEN 0 ELSE DaysBeforeYear(y - 1) + DaysInYear(y - 1)

RECURSIVE DaysBeforeMonth(_, _)
DaysBeforeMonth(y, m) ==
    IF m <= 1 THEN 0 ELSE DaysBeforeMonth(y, m - 1) + DaysInMonth(y, m - 1)

\* The instant of year-month-day hour:minute (UTC).
ToTs(y, m, d, h, mi) ==
    (DaysBeforeYear(y) + DaysBeforeMonth(y, m) + (d - 1)) * 86400 + h * 3600 + mi * 60

YearOf(ts) ==
    CHOOSE y \in 2024..2030 :
        /\ DaysBeforeYear(y) * 86400 <= ts
        /\ ts < DaysBeforeYear(y + 1) * 86400

MonthOf(ts) ==
    LET y == YearOf(ts)
        doy == (ts \div 86400) - DaysBeforeYear(y)
    IN  CHOOSE m \in 1..12 :
            /\ DaysBeforeMonth(y, m) <= doy
            /\ doy < DaysBeforeMonth(y, m) + DaysInMonth(y, m)

DayOf(ts) ==
    LET y == YearOf(ts)
    IN  (ts \div 86400) - DaysBeforeYear(y) - DaysBeforeMonth(y, MonthOf(ts)) + 1

HourOf(ts) == (ts % 86400) \div 3600
MinuteOf(ts) == (ts % 3600) \div 60

\* A luxon DateTime: either valid with an instant, or invalid (its
\* valueOf()/toMillis() is NaN, its toISO() is null).  An invalid DateTime
\* is still an object, hence truthy.
Invalid == [valid |-> FALSE, ts |-> 0]
Valid(ts) == [valid |-> TRUE, ts |-> ts]

\* DateTime.fromObject({year, month, day, hour, minute}, {zone: "UTC"}):
\* a unit out of range gives an invalid DateTime (24:00 is accepted).
fromObject(y, m, d, h, mi) ==
    IF /\ m \in 1..12
       /\ d >= 1 /\ d <= DaysInMonth(y, m)
       /\ \/ (h \in 0..23 /\ mi \in 0..59)
          \/ (h = 24 /\ mi = 0)
    THEN Valid(ToTs(y, m, d, h, mi))
    ELSE Invalid

\* dt.plus({years: 1}): same month, day clamped to the month's length.
plusYear(dt) ==
    IF ~dt.valid THEN dt
    ELSE LET y == YearOf(dt.ts)
             m == MonthOf(dt.ts)
             d == DayOf(dt.ts)
         IN  Valid(ToTs(y + 1, m, Min(d, DaysInMonth(y + 1, m)), HourOf(dt.ts), MinuteOf(dt.ts)))

\* a < b on DateTimes (valueOf comparison; NaN compares false).
DtLess(a, b) == a.valid /\ b.valid /\ a.ts < b.ts
DtLeq(a, b) == a.valid /\ b.valid /\ a.ts <= b.ts

(***************************************************************************)
(* Schedule lines.  A line is its weekday prefix ("Mon, ") if any and its  *)
(* remaining text: a date of the form D.M. H:MM (the numbers as written),  *)
(* a comment (#...), a blank line, or other text.                          *)
(***************************************************************************)
DateLine(wd, d, m, h, mi) ==
    [wd |-> wd, form |-> "date", day |-> d, month |-> m, hour |-> h, minute |-> mi]
OtherLine(form) ==
    [wd |-> FALSE, form |-> form, day |-> 0, month |-> 0, hour |-> 0, minute |-> 0]

\* normalizeLine: trim, collapse blanks, remove a leading "Xxx, ".
normalizeLine(line) == [line EXCEPT !.wd = FALSE]

\* The regular expression ^(\d{1,2})\.(\d{1,2})\.\s*(\d{1,2}):(\d{2})$
Matches(s) ==
    /\ ~s.wd
    /\ s.form = "date"
    /\ s.day \in 0..99 /\ s.month \in 0..99 /\ s.hour \in 0..99 /\ s.minute \in 0..99

\* A parser without the 5 minutes of grace: dt < now advances the year.
parseDateLineUTC_NoGrace(line, now) ==
    LET s == normalizeLine(line)
    IN  IF ~Matches(s) THEN <<>>
        ELSE LET dt == fromObject(YearOf(now), s.month, s.day, s.hour, s.minute)
             IN  IF DtLess(dt, Valid(now)) THEN <<plusYear(dt)>> ELSE <<dt>>

\* parseDateLineUTC: <<>> for null, else <<dt>>.
parseDateLineUTC(line, now) ==
    LET s == normalizeLine(line)
    IN  IF ~Matches(s) THEN <<>>
        ELSE LET dt == fromObject(YearOf(now), s.month, s.day, s.hour, s.minute)
             IN  IF DtLess(dt, Valid(now - GraceMinutes * 60))
                 THEN <<plusYear(dt)>>
                 ELSE <<dt>>

(***************************************************************************)
(* Keys.  A key is the text `${type}:${dt.toISO()}`.  It is modelled by   *)
(* its pieces between the colons: the type, then for the ISO text          *)
(* "YYYY-MM-DDTHH:MM:SS.000Z" the date-and-hour piece (as the number of    *)
(* whole hours since the epoch), the minute piece and the seconds piece;   *)
(* the text "null" (toISO() of an invalid DateTime) is the single piece    *)
(* NullText.                                                               *)
(***************************************************************************)
NullText == 0 - 1

toISO(dt) ==
    IF dt.valid
    THEN <<dt.ts \div 3600, MinuteOf(dt.ts), dt.ts % 60>>
    ELSE <<NullText>>

MakeKey(type, dt) == <<type>> \o toISO(dt)

\* DateTime.fromISO on the pieces of a text: a full ISO text, an ISO text
\* that stops after the hour ("2024-03-05T14" is 14:00), or anything else
\* (invalid).
fromISO(pieces) ==
    IF Len(pieces) = 3 /\ pieces[1] >= 0
    THEN Valid(pieces[1] * 3600 + pieces[2] * 60 + pieces[3])
    ELSE IF Len(pieces) = 1 /\ pieces[1] >= 0
    THEN Valid(pieces[1] * 3600)
    ELSE Invalid

(***************************************************************************)
(* Array.prototype.sort with the comparator (a, b) => a.startsAt -         *)
(* b.startsAt, as V8 runs it on a short array (TimSort: the initial run is *)
(* counted, reversed when descending, and the rest is placed by binary     *)
(* insertion).  A NaN from the comparator counts as 0.                     *)
(***************************************************************************)
SortCompare(a, b) ==
    IF a.startsAt.valid /\ b.startsAt.valid THEN a.startsAt.ts - b.startsAt.ts ELSE 0

Reverse(s) == [i \in 1..Len(s) |-> s[Len(s) + 1 - i]]

RECURSIVE RunEnd(_, _, _)
RunEnd(s, idx, desc) ==
    IF idx > Len(s) THEN Len(s)
    ELSE LET order == SortCompare(s[idx], s[idx - 1])
         IN  IF (desc /\ order >= 0) \/ (~desc /\ order < 0)
             THEN idx - 1
             ELSE RunEnd(s, idx + 1, desc)

RECURSIVE BinarySearch(_, _, _, _)
BinarySearch(s, pivot, left, right) ==
    IF left >= right THEN left
    ELSE LET mid == left + ((right - left) \div 2)
         IN  IF SortCompare(pivot, s[mid]) < 0
             THEN BinarySearch(s, pivot, left, mid)
             ELSE BinarySearch(s, pivot, mid + 1, right)

RECURSIVE BinaryInsertionSort(_, _)
BinaryInsertionSort(s, start) ==
    IF start > Len(s) THEN s
    ELSE LET pivot == s[start]
             pos == BinarySearch(s, pivot, 1, start)
             placed == SubSeq(s, 1, pos - 1) \o <<pivot>> \o SubSeq(s, pos, start - 1)
                           \o SubSeq(s, start + 1, Len(s))
         IN  BinaryInsertionSort(placed, start + 1)

ArraySort(s) ==
    IF Len(s) < 2 THEN s
    ELSE LET desc == SortCompare(s[2], s[1]) < 0
             run == RunEnd(s, 3, desc)
             made == IF desc THEN Reverse(SubSeq(s, 1, run)) \o SubSeq(s, run + 1, Len(s))
                     ELSE s
         IN  BinaryInsertionSort(made, run + 1)

(***************************************************************************)
(* readScheduleFile                                                        *)
(***************************************************************************)
NoFile == [exists |-> FALSE, lines |-> <<>>]
File(lines) == [exists |-> TRUE, lines |-> lines]

\* part_000 trims the lines and drops blank and comment lines before the
\* loop; index.js hands every line to the parser.
KeptLines(v, lines) ==
    IF v = "part_000"
    THEN SelectSeq(lines, LAMBDA l : l.form \notin {"blank", "comment"})
    ELSE lines

KeysOf(evs) == {evs[i].key : i \in 1..Len(evs)}

\* The loop over the lines without the `seen` set: every parsed line is
\* pushed.
RECURSIVE ParseLines_NoDedupe(_, _, _, _)
ParseLines_NoDedupe(lines, type, now, acc) ==
    IF lines = <<>> THEN acc
    ELSE LET p == parseDateLineUTC(Head(lines), now)
             rest == Tail(lines)
         IN  IF p = <<>> THEN ParseLines_NoDedupe(rest, type, now, acc)
             ELSE ParseLines_NoDedupe(rest, type, now,
                      Append(acc, [type |-> type, startsAt |-> p[1],
                                   key |-> MakeKey(type, p[1])]))

\* The loop over the lines: skip null, skip a key already seen, push.
RECURSIVE ParseLines(_, _, _, _)
ParseLines(lines, type, now, acc) ==
    IF lines = <<>> THEN acc
    ELSE LET p == parseDateLineUTC(Head(lines), now)
             rest == Tail(lines)
         IN  IF p = <<>> THEN ParseLines(rest, type, now, acc)
             ELSE LET key == MakeKey(type, p[1])
                  IN  IF key \in KeysOf(acc)
                      THEN ParseLines(rest, type, now, acc)
                      ELSE ParseLines(rest, type, now,
                               Append(acc, [type |-> type, startsAt |-> p[1], key |-> key]))

readScheduleFile(v, file, type, now) ==
    IF ~file.exists THEN <<>>
    ELSE ArraySort(ParseLines(KeptLines(v, file.lines), type, now, <<>>))

\* events = [...ruins, ...altar].sort(...)
MergedCatalog(v, fs, now) ==
    ArraySort(readScheduleFile(v, fs.ruins, "ruins", now)
                \o readScheduleFile(v, fs.altar, "altar", now))

(***************************************************************************)
(* The ledger store (state.json) and the in-memory `state` object          *)
(***************************************************************************)
\* What state.json holds: nothing (no file), text that JSON.parse rejects,
\* or a JSON object, with or without a "notified" map.
AbsentStore == [kind |-> "absent", hasNotified |-> FALSE, notified |-> {}]
CorruptStore == [kind |-> "corrupt", hasNotified |-> FALSE, notified |-> {}]
JsonStore(has, keys) == [kind |-> "json", hasNotified |-> has, notified |-> keys]

\* The `state` object: whether it has a `notified` property, and its keys.
StateObj(has, keys) == [hasNotified |-> has, notified |-> keys]

\* A start that ignores state.json and begins with an empty ledger.
loadState_Fresh(store) == StateObj(TRUE, {})

loadState(store) ==
    IF store.kind = "json"
    THEN StateObj(store.hasNotified, store.notified)
    ELSE StateObj(TRUE, {})

saveState(s) == JsonStore(s.hasNotified, s.notified)

(***************************************************************************)
(* Pruning in loadAllEvents                                                *)
(***************************************************************************)
\* part_000: k.split(":").slice(1).join(":"), parsed with fromISO;
\*           removed when Number.isFinite(t) && t < cutoff.
\* index.js: k.split(":")[1], parsed with fromISO;
\*           removed when diff(now, "days").days < -14.
KeyTime(v, k) ==
    IF v = "part_000" THEN fromISO(Tail(k))
    ELSE IF Len(k) >= 2 THEN fromISO(<<k[2]>>) ELSE Invalid

\* A prune test that does not look at whether the timestamp parsed.
Pruned_Unchecked(v, k, now) == KeyTime(v, k).ts < now - PruneDays * 86400

Pruned(v, k, now) ==
    LET t == KeyTime(v, k)
    IN  t.valid /\ t.ts < now - PruneDays * 86400

PruneLedger(v, keys, now) == {k \in keys : ~Pruned(v, k, now)}

(***************************************************************************)
(* schedulerTick                                                           *)
(***************************************************************************)
\* A window of one hour plus or minus 15 seconds.
InWindow_Narrow(ev, tnow) ==
    /\ ev.startsAt.valid
    /\ ev.startsAt.ts - tnow <= WindowHi - 15
    /\ ev.startsAt.ts - tnow >= WindowLo + 15

\* The window test without its upper end: diff >= 3570 only.
InWindow_NoUpperEnd(ev, tnow) ==
    /\ ev.startsAt.valid
    /\ ev.startsAt.ts - tnow >= WindowLo

\* ev.startsAt.diff(now, "seconds").seconds within [3570, 3630]; the
\* difference from an invalid DateTime is NaN, which fails both tests.
InWindow(ev, tnow) ==
    /\ ev.startsAt.valid
    /\ ev.startsAt.ts - tnow <= WindowHi
    /\ ev.startsAt.ts - tnow >= WindowLo

\* The loop of schedulerTick from index i on, up to its next await: the
\* index of the first event that is not notified and is in the window
\* (sendWarning is called for it), or 0 when the loop runs off the end.
RECURSIVE NextDue(_, _, _, _)
NextDue(evs, i, tnow, keys) ==
    IF i > Len(evs) THEN 0
    ELSE IF evs[i].key \in keys THEN NextDue(evs, i + 1, tnow, keys)
    ELSE IF InWindow(evs[i], tnow) THEN i
    ELSE NextDue(evs, i + 1, tnow, keys)

\* A loop that looks at the same event again after sendWarning returned.
ResumeIndex_Same(t) == t.i

\* The events whose diffSeconds a tick at tnow finds inside the window.
Observing(evs, tnow) ==
    {<<evs[i].key, tnow>> : i \in {j \in 1..Len(evs) : InWindow(evs[j], tnow)}}

\* Where the loop goes on once `await sendWarning(ev)` has returned.
ResumeIndex(t) == t.i + 1

(***************************************************************************)
(* Queries                                                                 *)
(***************************************************************************)
\* now.plus({days: 7}) and now.plus({months: 1}) (the day clamped to the
\* length of the next month).
plusDays(ts, n) == ts + n * 86400

plusMonth(ts) ==
    LET y == YearOf(ts)
        m == MonthOf(ts)
        y2 == IF m = 12 THEN y + 1 ELSE y
        m2 == IF m = 12 THEN 1 ELSE m + 1
    IN  ToTs(y2, m2, Min(DayOf(ts), DaysInMonth(y2, m2)), HourOf(ts), MinuteOf(ts)) + (ts % 60)

Take(s, n) == SubSeq(s, 1, Min(Len(s), n))

\* part_000: listUpcoming(range), the events with now <= startsAt <= end,
\* at most 50 of them.  index.js (`week`, `month`): the events with
\* startsAt <= end.
listUpcoming(v, evs, tnow, end) ==
    IF v = "part_000"
    THEN Take(SelectSeq(evs, LAMBDA e : DtLeq(Valid(tnow), e.startsAt)
                                        /\ DtLeq(e.startsAt, Valid(end))), MaxListed)
    ELSE SelectSeq(evs, LAMBDA e : DtLeq(e.startsAt, Valid(end)))

\* part_000 nextEvent(): events.find((e) => e.startsAt >= now); the
\* `status` command of index.js: events.find((e) => e.startsAt > now).
\* A list of one event, or empty when find returns undefined.
nextEvent(v, evs, tnow) ==
    Take(SelectSeq(evs, LAMBDA e : IF v = "part_000" THEN DtLeq(Valid(tnow), e.startsAt)
                                   ELSE DtLess(Valid(tnow), e.startsAt)), 1)

Commands == {"help", "status", "week", "month"}

\* The events a command's reply is built from.
Answer(v, cmd, evs, tnow) ==
    CASE cmd = "week" -> listUpcoming(v, evs, tnow, plusDays(tnow, 7))
      [] cmd = "month" -> listUpcoming(v, evs, tnow, plusMonth(tnow))
      [] cmd = "status" -> nextEvent(v, evs, tnow)
      [] OTHER -> <<>>

\* A reply to a command: the command and the events it lists.
Reply(cmd, list) == [cmd |-> cmd, list |-> list]
NoReply == Reply("none", <<>>)

VARIABLES
    variant,    \* which source variant runs
    now,        \* the clock
    files,      \* schedules/ruins.txt and schedules/altar.txt
    store,      \* state.json
    up,         \* the process is running (after "ready")
    state,      \* the in-memory `state`
    events,     \* the in-memory catalog `events`
    nextTick,   \* when the interval timer fires next
    ticks,      \* the schedulerTick calls suspended at an await
    run,        \* how many times the process has been started
    edits,      \* how many times the schedule files were edited
    early,      \* history: keys in the catalog, un-warned, since before their window
    called,     \* history: keys sendWarning was called for
    recalled,   \* history: keys sendWarning was called for more than once
    failed,     \* history: keys with a delivery attempt that failed
    retried,    \* history: keys sendWarning was called for after a failed attempt
    delivered,  \* history: keys whose channel.send resolved
    marked,     \* history: keys written to the ledger by sendWarning
    oldMarks,   \* history: keys written to the ledger by an earlier run
    lastTick,   \* history: when the running process last ran schedulerTick (0: never)
    errors,     \* history: errors no handler caught
    observed,   \* history: <<key, time>> of each tick of the running process that found the event's diff in the window
    reply       \* the last reply to a query command

vars == <<variant, now, files, store, up, state, events, nextTick, ticks, run, edits,
          early, called, recalled, failed, retried, delivered, marked, oldMarks,
          lastTick, errors, observed, reply>>

env == <<variant, now, files, edits>>
proc == <<up, state, events, nextTick, ticks, lastTick>>
callHist == <<called, recalled, retried>>
obs == <<observed, reply>>

(***************************************************************************)
(* The bounded scenario: what the schedule files and state.json may hold,  *)
(* and the stretch of time that is explored.                               *)
(***************************************************************************)
MaxElapsed == 120
MaxRuns == 2
MaxEdits == 1
MaxInFlight == 2

\* The event every schedule below is built around: 2024-03-05T14:00Z.
EventTime == ToTs(2024, 3, 5, 14, 0)

LineA == DateLine(TRUE, 5, 3, 14, 0)       \* "Tue, 5.3. 14:00"
LineA2 == DateLine(FALSE, 5, 3, 14, 0)     \* "5.3. 14:00"
LineB == DateLine(FALSE, 5, 3, 14, 1)      \* "5.3. 14:01"
LineBad == DateLine(FALSE, 31, 2, 10, 0)   \* "31.2. 10:00"

FileSets ==
    { [ruins |-> File(<<LineA, LineA2>>),
       altar |-> File(<<OtherLine("comment"), LineA2>>)],
      [ruins |-> File(<<LineB, LineBad, OtherLine("blank"), LineA>>),
       altar |-> NoFile] }

\* Ledger keys that hold no instant: "ruins:null" (the key of an event
\* with an invalid date) and "foo" (no colon, no timestamp part).
MalformedKeys == {<<"ruins", NullText>>, <<"foo">>}

\* Ledger entries left by earlier runs: 15 days, 13 days and exactly 14 days
\* before the hour preceding EventTime, and one half an hour younger; and
\* the malformed keys.
OldKeys ==
    LET p == EventTime - 3600 - PruneDays * 86400
    IN  { MakeKey("ruins", Valid(p - 86400)), MakeKey("ruins", Valid(p + 86400)),
          MakeKey("altar", Valid(p)), MakeKey("altar", Valid(p + 1800)) }
        \cup MalformedKeys

Stores == {AbsentStore, CorruptStore, JsonStore(FALSE, {}), JsonStore(TRUE, OldKeys)}

\* The process is first started one minute before the window of EventTime
\* opens, or a quarter of a minute later; the clock moves in tick periods.
StartTimes == {EventTime - 3660}
SteadyStartTimes == {EventTime - 3660, EventTime - 3645}
EndTime == EventTime - 3660 + MaxElapsed
Instants ==
    {t \in (EventTime - 3660)..EndTime :
        \E s \in StartTimes \cup SteadyStartTimes : t >= s /\ (t - s) % TickPeriod = 0}

\* Schedules for the query commands: an event one minute in the past at
\* the first start (kept in the current year by the 5 minutes of grace),
\* one that passes while the process runs, one within the week, one
\* within the month, one beyond.
LinePast == DateLine(FALSE, 5, 3, 12, 58)
LineSoon == DateLine(FALSE, 5, 3, 13, 0)
LineWeek == DateLine(TRUE, 10, 3, 10, 0)
LineMonth == DateLine(FALSE, 20, 3, 10, 0)
LineLater == DateLine(FALSE, 12, 4, 10, 0)

QueryFileSets ==
    { [ruins |-> File(<<LinePast, LineSoon, LineWeek, LineMonth, LineLater>>),
       altar |-> File(<<LineA2>>)],
      [ruins |-> File(<<LineWeek, LineSoon>>),
       altar |-> NoFile] }

\* Lines and instants for the parser alone: dates around the 5 minutes of
\* grace, around the turn of the year and around 29 February, numbers out
\* of range, with and without a weekday prefix; read in a leap year and in
\* the year after it.
ParseLineSet ==
    { DateLine(FALSE, 5, 3, 12, 53), DateLine(FALSE, 5, 3, 12, 54), DateLine(TRUE, 5, 3, 12, 58),
      DateLine(FALSE, 5, 3, 14, 0), DateLine(TRUE, 29, 2, 10, 0), DateLine(FALSE, 29, 2, 10, 0),
      DateLine(FALSE, 28, 2, 23, 58), DateLine(FALSE, 1, 1, 0, 0), DateLine(TRUE, 31, 12, 23, 59),
      DateLine(FALSE, 31, 2, 10, 0), DateLine(FALSE, 5, 13, 10, 0), DateLine(FALSE, 0, 3, 10, 0),
      DateLine(FALSE, 5, 3, 24, 0), DateLine(FALSE, 5, 3, 25, 0), DateLine(FALSE, 5, 3, 12, 60),
      OtherLine("other") }

ParseTimes ==
    { EventTime - 3660, EventTime - 3630,
      ToTs(2024, 2, 29, 10, 3), ToTs(2024, 2, 29, 10, 6),
      ToTs(2024, 12, 31, 23, 58), ToTs(2025, 3, 1, 0, 2) }

ParseFileSets == {[ruins |-> File(<<l>>), altar |-> NoFile] : l \in ParseLineSet}

AllFileSets == FileSets \cup QueryFileSets \cup ParseFileSets

\* What an edit can turn the schedule files into: the other contents of
\* the same scenario.
Siblings(fs) ==
    IF fs \in FileSets THEN FileSets \ {fs}
    ELSE IF fs \in QueryFileSets THEN QueryFileSets \ {fs}
    ELSE {}

\* The catalog loadAllEvents builds from each choice of files at each
\* instant of the scenario.
CatalogAt ==
    [v \in Variants, fs \in AllFileSets, t \in Instants \cup ParseTimes |->
        MergedCatalog(v, fs, t)]

(***************************************************************************)
(* State machine                                                           *)
(***************************************************************************)
Init ==
    /\ variant \in Variants
    /\ now \in StartTimes
    /\ files \in FileSets
    /\ store \in Stores
    /\ up = FALSE
    /\ state = StateObj(TRUE, {})
    /\ events = <<>>
    /\ nextTick = 0
    /\ ticks = {}
    /\ run = 0
    /\ edits = 0
    /\ early = {}
    /\ called = {}
    /\ recalled = {}
    /\ failed = {}
    /\ retried = {}
    /\ delivered = {}
    /\ marked = {}
    /\ oldMarks = {}
    /\ lastTick = 0
    /\ errors = {}
    /\ observed = {}
    /\ reply = NoReply

\* The process is gone: nothing of its memory or its timers is left.
Down ==
    /\ up' = FALSE
    /\ state' = StateObj(TRUE, {})
    /\ events' = <<>>
    /\ nextTick' = 0
    /\ ticks' = {}
    /\ early' = {}
    /\ lastTick' = 0
    /\ observed' = {}
    /\ oldMarks' = marked

\* A loadAllEvents that pushes the parsed events onto the existing catalog.
loadAllEvents_Appending(v, st, fs, tnow, cur) ==
    LET evs == ArraySort(events \o CatalogAt[v, fs, tnow])
    IN  IF ~st.hasNotified /\ v = "part_000"
        THEN [events |-> evs, state |-> st, store |-> cur, threw |-> TRUE]
        ELSE LET st2 == IF st.hasNotified
                        THEN StateObj(TRUE, PruneLedger(v, st.notified, tnow))
                        ELSE st
             IN  [events |-> evs, state |-> st2, store |-> saveState(st2), threw |-> FALSE]

\* loadAllEvents on state object st at time tnow: the new catalog, the
\* pruned state, what state.json holds afterwards, and whether a TypeError
\* was thrown (part_000 calls Object.keys(state.notified), which throws
\* when `notified` is missing, after `events` was assigned and before
\* saveState; the for-in of index.js loops zero times instead).
loadAllEvents(v, st, fs, tnow, cur) ==
    LET evs == CatalogAt[v, fs, tnow]
    IN  IF ~st.hasNotified /\ v = "part_000"
        THEN [events |-> evs, state |-> st, store |-> cur, threw |-> TRUE]
        ELSE LET st2 == IF st.hasNotified
                        THEN StateObj(TRUE, PruneLedger(v, st.notified, tnow))
                        ELSE st
             IN  [events |-> evs, state |-> st2, store |-> saveState(st2), threw |-> FALSE]

\* The keys of the new catalog evs that have been in the catalog, not in
\* the ledger, since before their window opened.
StillEarly(evs, keys, tnow) ==
    {evs[i].key : i \in {j \in 1..Len(evs) :
        \/ evs[j].key \in early
        \/ /\ evs[j].startsAt.valid
           /\ evs[j].startsAt.ts - tnow > WindowHi
           /\ evs[j].key \notin keys}}

\* node starts: `let state = loadState()`, login, then the "ready" handler
\* runs loadAllEvents() and setInterval(schedulerTick, 30_000).  An error
\* thrown by the handler is uncaught and ends the process.
Start ==
    /\ ~up
    /\ run < MaxRuns
    /\ run' = run + 1
    /\ LET r == loadAllEvents(variant, loadState(store), files, now, store)
       IN  IF r.threw
           THEN /\ Down
                /\ errors' = errors \cup {"TypeError"}
                /\ UNCHANGED store
           ELSE /\ up' = TRUE
                /\ UNCHANGED observed
                /\ state' = r.state
                /\ events' = r.events
                /\ store' = r.store
                /\ nextTick' = now + TickPeriod
                /\ ticks' = {}
                /\ early' = StillEarly(r.events, r.state.notified, now)
                /\ UNCHANGED <<errors, oldMarks, lastTick>>
    /\ UNCHANGED <<env, reply, callHist, failed, delivered, marked>>

\* sendWarning(ev) is called.
Called(key) ==
    /\ called' = called \cup {key}
    /\ recalled' = IF key \in called THEN recalled \cup {key} ELSE recalled
    /\ retried' = IF key \in failed THEN retried \cup {key} ELSE retried

\* The interval timer fires: schedulerTick runs up to its first await.
\* `state.notified[ev.key]` on a state without `notified` throws a
\* TypeError; the rejected promise of the tick is handled nowhere, which
\* ends the process.
Tick ==
    /\ up
    /\ now = nextTick
    /\ IF events # <<>> /\ ~state.hasNotified
       THEN /\ Down
            /\ errors' = errors \cup {"TypeError"}
            /\ UNCHANGED callHist
       ELSE LET j == NextDue(events, 1, now, state.notified)
            IN  /\ j = 0 \/ Cardinality(ticks) < MaxInFlight
                /\ nextTick' = now + TickPeriod
                /\ lastTick' = now
                /\ observed' = observed \cup Observing(events, now)
                /\ IF j = 0
                   THEN UNCHANGED <<ticks, callHist>>
                   ELSE /\ ticks' = ticks \cup
                              {[now |-> now, evs |-> events, i |-> j, pc |-> "fetch", done |-> {}]}
                        /\ Called(events[j].key)
                /\ UNCHANGED <<up, state, events, errors, early, oldMarks>>
    /\ UNCHANGED <<env, reply, store, run, failed, delivered, marked>>

\* sendWarning has returned in tick t: the loop goes on, with the ledger
\* as it is now, up to the next await or to its end.
Proceed(t, keys) ==
    LET j == NextDue(t.evs, ResumeIndex(t), t.now, keys)
        seen == t.done \cup {t.evs[t.i].key}
    IN  IF j = 0
        THEN /\ ticks' = ticks \ {t}
             /\ UNCHANGED callHist
        ELSE /\ ticks' = (ticks \ {t}) \cup {[t EXCEPT !.i = j, !.pc = "fetch", !.done = seen]}
             /\ Called(t.evs[j].key)

\* A sendWarning that writes the ledger entry before channel.send.
FetchText_MarksFirst(t) ==
    /\ t.pc = "fetch"
    /\ ticks' = (ticks \ {t}) \cup {[t EXCEPT !.pc = "send"]}
    /\ LET st2 == StateObj(state.hasNotified, state.notified \cup {t.evs[t.i].key})
       IN  /\ state' = st2
           /\ store' = saveState(st2)
    /\ UNCHANGED <<env, obs, up, events, nextTick, lastTick, run, early, callHist,
                   failed, delivered, marked, oldMarks, errors>>

\* client.channels.fetch resolved with a text channel: channel.send starts.
FetchText(t) ==
    /\ t.pc = "fetch"
    /\ ticks' = (ticks \ {t}) \cup {[t EXCEPT !.pc = "send"]}
    /\ UNCHANGED <<env, obs, store, up, state, events, nextTick, lastTick, run, early, callHist,
                   failed, delivered, marked, oldMarks, errors>>

\* fetch resolved with no channel or one that is not text based: return.
FetchNotText(t) ==
    /\ t.pc = "fetch"
    /\ failed' = failed \cup {t.evs[t.i].key}
    /\ Proceed(t, state.notified)
    /\ UNCHANGED <<env, obs, store, up, state, events, nextTick, lastTick, run, early,
                   delivered, marked, oldMarks, errors>>

\* fetch or send rejected: sendWarning and the tick reject, no handler.
Reject(t) ==
    /\ Down
    /\ failed' = failed \cup {t.evs[t.i].key}
    /\ errors' = errors \cup {"DeliveryError"}
    /\ UNCHANGED <<env, reply, store, run, callHist, delivered, marked>>

\* channel.send resolved: state.notified[ev.key] = true; saveState(state).
SendOk(t) ==
    /\ t.pc = "send"
    /\ LET key == t.evs[t.i].key
           st2 == StateObj(state.hasNotified, state.notified \cup {key})
       IN  /\ state' = st2
           /\ store' = saveState(st2)
           /\ delivered' = delivered \cup {key}
           /\ marked' = marked \cup {key}
           /\ Proceed(t, st2.notified)
    /\ UNCHANGED <<env, obs, up, events, nextTick, lastTick, run, early, failed, oldMarks, errors>>

\* The `reload` command.  In part_000 the handler's try/catch takes the
\* TypeError of loadAllEvents.
Reload ==
    /\ up
    /\ LET r == loadAllEvents(variant, state, files, now, store)
       IN  /\ events' = r.events
           /\ state' = r.state
           /\ store' = r.store
           /\ early' = StillEarly(r.events, r.state.notified, now)
    /\ UNCHANGED <<env, obs, up, nextTick, ticks, lastTick, run, callHist, failed, delivered,
                   marked, oldMarks, errors>>

\* A query command (`help`, `status`, `week`, `month`): the handler reads
\* `events` and the clock and replies (the reply is taken to be sent).
Query(cmd) ==
    /\ up
    /\ reply' = Reply(cmd, Answer(variant, cmd, events, now))
    /\ UNCHANGED <<env, observed, store, proc, run, early, callHist, failed, delivered,
                   marked, oldMarks, errors>>

\* Somebody edits the schedule files.
EditFiles ==
    /\ edits < MaxEdits
    /\ edits' = edits + 1
    /\ files' \in Siblings(files)
    /\ UNCHANGED <<obs, variant, now, store, proc, run, early, callHist, failed, delivered,
                   marked, oldMarks, errors>>

\* The process is killed (host restart, deploy, power loss).
Crash ==
    /\ up
    /\ Down
    /\ UNCHANGED <<env, reply, store, run, callHist, failed, delivered, marked, errors>>

\* Time passes; a running process fires its timer when it is due.
Advance ==
    /\ \E d \in {TickPeriod} :
        /\ now + d <= EndTime
        /\ up => now + d <= nextTick
        /\ now' = now + d
    /\ UNCHANGED <<obs, variant, files, edits, store, proc, run, early, callHist, failed,
                   delivered, marked, oldMarks, errors>>

\* The program and what can get in its way, with the schedule files left
\* as they are.
Next ==
    \/ Start
    \/ Tick
    \/ \E t \in ticks : FetchText(t)
    \/ \E t \in ticks : FetchNotText(t)
    \/ \E t \in ticks : Reject(t)
    \/ \E t \in ticks : SendOk(t)
    \/ Reload
    \/ Crash
    \/ Advance

Spec == Init /\ [][Next]_vars

\* The same program with nothing in its way: the timer never misses a
\* tick, the process is not killed, the files are not edited, and every
\* fetch and every send succeeds (after whatever time it takes).
InitSteady ==
    /\ variant \in Variants
    /\ now \in SteadyStartTimes
    /\ files \in FileSets
    /\ store \in Stores
    /\ up = FALSE
    /\ state = StateObj(TRUE, {})
    /\ events = <<>>
    /\ nextTick = 0
    /\ ticks = {}
    /\ run = 0
    /\ edits = 0
    /\ early = {}
    /\ called = {}
    /\ recalled = {}
    /\ failed = {}
    /\ retried = {}
    /\ delivered = {}
    /\ marked = {}
    /\ oldMarks = {}
    /\ lastTick = 0
    /\ errors = {}
    /\ observed = {}
    /\ reply = NoReply

NextSteady ==
    \/ Start
    \/ Tick
    \/ \E t \in ticks : FetchText(t)
    \/ \E t \in ticks : SendOk(t)
    \/ Reload
    \/ Advance

SpecSteady == InitSteady /\ [][NextSteady]_vars

\* The state before the first start, for a choice of start times, schedule
\* files and state.json contents.
InitFrom(times, fsets, stores) ==
    /\ variant \in Variants
    /\ now \in times
    /\ files \in fsets
    /\ store \in stores
    /\ up = FALSE
    /\ state = StateObj(TRUE, {})
    /\ events = <<>>
    /\ nextTick = 0
    /\ ticks = {}
    /\ run = 0
    /\ edits = 0
    /\ early = {}
    /\ called = {}
    /\ recalled = {}
    /\ failed = {}
    /\ retried = {}
    /\ delivered = {}
    /\ marked = {}
    /\ oldMarks = {}
    /\ lastTick = 0
    /\ errors = {}
    /\ observed = {}
    /\ reply = NoReply

\* The steady program answering query commands.
InitQuery == InitFrom(StartTimes, QueryFileSets, {AbsentStore, JsonStore(TRUE, OldKeys)})

NextQuery ==
    \/ NextSteady
    \/ \E c \in Commands : Query(c)

SpecQuery == InitQuery /\ [][NextQuery]_vars

\* The parser on its own: one line in ruins.txt, read at one instant by
\* the load at startup and by `reload`.
InitParse == InitFrom(ParseTimes, ParseFileSets, {AbsentStore})

NextParse ==
    \/ Start
    \/ Reload

SpecParse == InitParse /\ [][NextParse]_vars

\* The steady program, started without a state.json, while somebody edits
\* the schedule files.
InitEdit == InitFrom(StartTimes, FileSets, {AbsentStore})

NextEdit ==
    \/ NextSteady
    \/ EditFiles

SpecEdit == InitEdit /\ [][NextEdit]_vars

\* The same with the query commands and their schedules.
InitQueryEdit == InitFrom(StartTimes, QueryFileSets, {AbsentStore})

NextQueryEdit ==
    \/ NextQuery
    \/ EditFiles

SpecQueryEdit == InitQueryEdit /\ [][NextQueryEdit]_vars

(***************************************************************************)
(* Properties                                                              *)
(***************************************************************************)
KeyOf(t) == t.evs[t.i].key
LedgerKeys == state.notified \cup store.notified

\* The instant written in a key, at minute resolution; keys without one
\* are not dated.
Dated(k) == Len(k) = 4 /\ k[2] >= 0
EmbeddedTime(k) == k[2] * 3600 + k[3] * 60 + k[4]

\* C1: across all ticks and reloads, sendWarning is called at most once
\* for each key.
C1_AtMostOnce == recalled = {}

\* C2: whenever a tick has called sendWarning for an event, the event's
\* start lies between 3570 and 3630 seconds after the time the tick took
\* at its start; nothing outside that window is warned or marked by it.
C2_OnlyInWindow ==
    \A t \in ticks :
        /\ t.evs[t.i].startsAt.valid
        /\ t.evs[t.i].startsAt.ts - t.now >= WindowLo
        /\ t.evs[t.i].startsAt.ts - t.now <= WindowHi

C2_WarnedAtWindowEdge ==
    \E t \in ticks :
        /\ t.evs[t.i].startsAt.ts - t.now = WindowHi
        /\ \E i \in 1..Len(t.evs) :
            /\ t.evs[i].startsAt.valid
            /\ t.evs[i].startsAt.ts - t.now > WindowHi
            /\ t.evs[i].key \notin called

\* C3: with every tick on time and every delivery succeeding, an event
\* that was in the catalog, un-warned, before its window opened has had
\* sendWarning called for it by the time its start is less than 3570
\* seconds away.
C3_WarnedBeforeWindowCloses ==
    \A i \in 1..Len(events) :
        ( /\ up
          /\ events[i].key \in early
          /\ events[i].startsAt.ts - now < WindowLo )
        => events[i].key \in called

\* C4: once sendWarning has recorded a key and the process has gone down
\* and come back, no tick calls sendWarning for that key.
C4_NoResendAfterRestart ==
    \A t \in ticks : KeyOf(t) \notin oldMarks

C4_RestartedInsideWindow ==
    /\ up
    /\ lastTick > 0
    /\ \E i \in 1..Len(events) :
        /\ events[i].key \in oldMarks
        /\ InWindow(events[i], lastTick)

\* C5: a key enters the ledger (in memory or in state.json) only once its
\* channel.send has resolved, and a step in which a delivery fails leaves
\* state.json, and the state of a process that lives on, as they were.
C5_MarkOnlyAfterDelivery ==
    [][ /\ (LedgerKeys' \ LedgerKeys) \subseteq delivered'
        /\ (failed' # failed) => (store' = store /\ (up' => state' = state)) ]_vars

C5_FailedAndUnmarked ==
    /\ up
    /\ (failed \ delivered) # {}
    /\ (delivered \cap state.notified) # {}

\* C6 as stated: once a delivery attempt for a key has failed, sendWarning
\* is never called for that key again.
C6_NeverRetried == retried = {}

\* C6 as amended: no tick calls sendWarning twice for one key (a failed
\* attempt is not repeated by the tick that made it; a later tick that
\* finds the event un-warned inside the window does call again).
C6_OneAttemptPerTick ==
    \A t \in ticks : KeyOf(t) \notin t.done

C6_RetriedByLaterTick ==
    \E t \in ticks : KeyOf(t) \in retried /\ t.done # {}

\* C7: a load removes from the ledger exactly the dated keys whose instant
\* is more than 14 days before now.
KeptAt(keys, tnow) ==
    {k \in keys : ~(Dated(k) /\ EmbeddedTime(k) < tnow - PruneDays * 86400)}

C8_BadStoreNotFatal ==
    /\ up => state.hasNotified
    /\ "TypeError" \notin errors

\* C9: no two events of the catalog have the same key.
C9_UniqueKeys ==
    \A i, j \in 1..Len(events) : i # j => events[i].key # events[j].key

C9_DuplicateLinesCollapsed ==
    /\ up
    /\ edits = 0
    /\ files.ruins = File(<<LineA, LineA2>>)
    /\ Cardinality({i \in 1..Len(events) : events[i].type = "ruins"}) = 1
    /\ Cardinality({i \in 1..Len(events) : events[i].type = "altar"}) = 1

\* C10: the catalog, and the list the `week` query builds from it, are in
\* non-decreasing order of startsAt.
Ordered(evs) ==
    \A i, j \in 1..Len(evs) :
        (i < j /\ evs[i].startsAt.valid /\ evs[j].startsAt.valid)
        => evs[i].startsAt.ts <= evs[j].startsAt.ts

C10_CatalogOrdered ==
    /\ Ordered(events)
    /\ Ordered(listUpcoming(variant, events, now, plusDays(now, 7)))

\* C11: the `week` and `month` replies list exactly the catalog events with
\* now <= startsAt <= now + 7 days (1 month), the first 50 of them, in
\* catalog order; an event that has started is not listed.
Upcoming(evs, tnow, end) ==
    Take(SelectSeq(evs, LAMBDA e : e.startsAt.valid /\ tnow <= e.startsAt.ts
                                    /\ e.startsAt.ts <= end), MaxListed)

C11_UpcomingExact ==
    [][ /\ Query("week") => reply'.list = Upcoming(events, now, plusDays(now, 7))
        /\ Query("month") => reply'.list = Upcoming(events, now, plusMonth(now)) ]_vars

\* The one line of ruins.txt under SpecParse, and the timestamp built from
\* its numbers and the current UTC year.
TheLine == files.ruins.lines[1]
Candidate == fromObject(YearOf(now), TheLine.month, TheLine.day, TheLine.hour, TheLine.minute)

\* C12: when the current-year timestamp of a matching line is more than 5
\* minutes before now, the event is that date in the next year; otherwise
\* it is the current-year timestamp itself.
C12_YearInference ==
    (up /\ TheLine.form = "date" /\ Candidate.valid) =>
        /\ Len(events) = 1
        /\ events[1].startsAt.valid
        /\ IF Candidate.ts < now - 5 * 60
           THEN /\ YearOf(events[1].startsAt.ts) = YearOf(now) + 1
                /\ MonthOf(events[1].startsAt.ts) = TheLine.month
                /\ events[1].startsAt.ts % 86400 = Candidate.ts % 86400
           ELSE events[1].startsAt = Candidate

\* A line exactly 5 minutes in the past kept in the current year.
C12_KeptAtFiveMinutes ==
    /\ up
    /\ TheLine.form = "date"
    /\ Candidate.valid
    /\ Candidate.ts = now - 5 * 60
    /\ events[1].startsAt = Candidate

\* C13: the UTC month, day, hour and minute of the parsed timestamp are
\* the numbers written in the line (for a line that names a day of the
\* calendar, 29 February included, and a time of day).
C13_RoundTrip ==
    ( /\ up
      /\ TheLine.form = "date"
      /\ TheLine.month \in 1..12
      /\ TheLine.day \in 1..DaysInMonth(2024, TheLine.month)
      /\ TheLine.hour \in 0..23
      /\ TheLine.minute \in 0..59 ) =>
        /\ Len(events) = 1
        /\ events[1].startsAt.valid
        /\ MonthOf(events[1].startsAt.ts) = TheLine.month
        /\ DayOf(events[1].startsAt.ts) = TheLine.day
        /\ HourOf(events[1].startsAt.ts) = TheLine.hour
        /\ MinuteOf(events[1].startsAt.ts) = TheLine.minute

\* C14: no schedulerTick begins, and no reload runs, while an earlier
\* schedulerTick is still in progress (suspended at an await between its
\* ledger test and the ledger write).
C14_RunToCompletion ==
    [][ /\ Tick => ticks = {}
        /\ Reload => ticks = {} ]_vars

\* The ticks that found the diff of key k inside the window, and the
\* events that were in the catalog before their window opened and whose
\* window the ticks of the running process have left behind.
ObservedBy(k) == {o \in observed : o[1] = k}
WindowPassed ==
    {events[i].key : i \in {j \in 1..Len(events) :
        /\ up
        /\ events[j].key \in early
        /\ lastTick > 0
        /\ events[j].startsAt.ts - lastTick < WindowLo}}

\* C15 as stated: with a tick every 30 seconds and none missed, exactly
\* one tick finds an event's diff inside [3570, 3630].
C15_ExactlyOneTick ==
    \A k \in WindowPassed : Cardinality(ObservedBy(k)) = 1

\* C15 as amended: at least two ticks and at most three find it there.
C15_TwoOrThreeTicks ==
    \A k \in WindowPassed : Cardinality(ObservedBy(k)) \in {2, 3}

C15_ObservedByThreeTicks ==
    \E k \in WindowPassed :
        {o[2] : o \in ObservedBy(k)} = {EventTime - WindowHi, EventTime - 3600, EventTime - WindowLo}

\* C16: a tick goes through its whole catalog: when the tick that started
\* at t.now is over (and the process was not killed), no event behind the
\* one it last handed to sendWarning is left inside the window of t.now
\* and un-warned.
TickEnds(t) == \A u \in ticks' : u.now # t.now
Pending(t, keys) ==
    \E j \in (t.i + 1)..Len(t.evs) : InWindow(t.evs[j], t.now) /\ t.evs[j].key \notin keys

C16_NoEarlyExit ==
    [][ ~Crash => \A t \in ticks : TickEnds(t) => ~Pending(t, state.notified \cup state'.notified) ]_vars

\* C17: a key leaves the ledger (of a running process, or on the way from
\* state.json into a starting one) only when its instant is more than 14
\* days before now, and what the running process has in its ledger is in
\* state.json as well.
TooOld(k) == Dated(k) /\ EmbeddedTime(k) < now - 14 * 86400

C17_MarkedUntilPruned ==
    [][ /\ (up /\ up') => \A k \in state.notified \ state'.notified : TooOld(k)
        /\ (Start /\ up') => \A k \in loadState(store).notified \ state'.notified : TooOld(k)
        /\ (up' /\ state'.hasNotified) => state'.notified \subseteq store'.notified ]_vars

\* C18: while the process lives the catalog changes only in a load (at
\* startup or by `reload`); the query commands leave catalog, ledger and
\* state.json as they are; a reload makes the catalog what the schedule
\* files and the clock give, whatever it was before.
C18_CatalogFrame ==
    [][ /\ (up' /\ events' # events) => (Start \/ Reload)
        /\ (reply' # reply /\ \E c \in Commands : Query(c)) =>
              (events' = events /\ state' = state /\ store' = store)
        /\ (now' = now /\ ticks' = ticks /\ reply' = reply /\ Reload) =>
              events' = CatalogAt[variant, files, now] ]_vars

\* A reload has replaced a catalog from which an event had been warned by
\* one that no longer holds it, and a query has been answered.
C18_CatalogReplaced ==
    /\ up
    /\ events # <<>>
    /\ events = CatalogAt[variant, files, now]
    /\ reply.cmd \in {"status", "week", "month"}
    /\ \E k \in called : k \notin KeysOf(events)

\* C19: a load (at startup or by `reload`) leaves every ledger key that
\* holds no parseable instant in the ledger, in memory and in state.json,
\* and ends without an error.
Undated(keys) == {k \in keys : ~Dated(k)}

C19_MalformedKeysKept ==
    [][ /\ (now' = now /\ ticks' = ticks /\ state.hasNotified /\ Reload) =>
              /\ Undated(state.notified) \subseteq state'.notified
              /\ Undated(state.notified) \subseteq store'.notified
              /\ errors' = errors
        /\ (store.kind = "json" /\ store.hasNotified /\ Start) =>
              /\ up'
              /\ Undated(store.notified) \subseteq state'.notified
              /\ Undated(store.notified) \subseteq store'.notified
              /\ errors' = errors ]_vars

\* A running process that has pruned an old entry and still has both
\* malformed keys.
C19_PrunedAroundMalformed ==
    /\ up
    /\ MalformedKeys \subseteq state.notified
    /\ MalformedKeys \subseteq store.notified
    /\ \E k \in OldKeys : Dated(k) /\ k \notin state.notified

\* C20: every call of sendWarning is for an event of the catalog as it is
\* when the call is made (a suspended tick that resumes after a reload
\* calls it for nothing the reload removed).
C20_OnlyCurrentCatalog ==
    [][ \A u \in ticks' \ ticks : u.pc = "fetch" => KeyOf(u) \in KeysOf(events) ]_vars
====
